---- MODULE Spec2Model ----
(***************************************************************************)
(* Model of src/server.js: the registration / activity backend.            *)
(*                                                                         *)
(* The two storage files are the shared state; every HTTP request is a     *)
(* process that runs its handler.  JavaScript runs a handler without       *)
(* interruption between two awaits, so one action is the completion of one *)
(* awaited fs call together with the synchronous code that follows it, up  *)
(* to the next await or to the response.  A file read and a file write are *)
(* each one atomic step.                                                   *)
(*                                                                         *)
(* JSON objects are records; a property that is absent (undefined) is a    *)
(* field that is not in the record's DOMAIN.  Strings that the code takes  *)
(* apart (ISO timestamps) are sequences of tokens.                         *)
(***************************************************************************)
EXTENDS Integers, Sequences, FiniteSets, TLC

(***************************************************************************)
(* Bounds of the model.                                                    *)
(***************************************************************************)
NumReq == 2          \* requests that can be in flight at the same time
MaxLog == 1          \* events are posted while the log holds fewer (new) events
MaxTime == 2         \* the clock runs from 0 to MaxTime, two ticks a day
MaxCalls == 1005     \* SpecRetention: the number of POST /api/activity calls
MaxUsers == 3        \* SpecStats: the longest users array on disk
MaxEvents == 2       \* SpecStats: the longest activity array on disk

(***************************************************************************)
(* Program constants.                                                      *)
(***************************************************************************)
RETENTION == 1000    \* "Keep only last 1000 activities"
DEFAULT_VERSION == "1.0.0"

Requests == 1..NumReq

VARIABLES
    usersFile,      \* content of storage/users.json
    activityFile,   \* content of storage/activity.json
    req,            \* req[r]: the handler invocation of request slot r
    now,            \* the wall clock read by new Date()
    started,        \* initializeStorage() is over and the server listens
    latest          \* history: the slot of the request answered last (0: none yet)

vars == <<usersFile, activityFile, req, now, started, latest>>

(***************************************************************************)
(* Files.  A file is missing, holds text that JSON.parse rejects, holds    *)
(* valid JSON that is not an array, or holds a JSON array.                 *)
(***************************************************************************)
MissingFile == [kind |-> "missing"]
CorruptFile == [kind |-> "unparseable"]
NotArrayFile == [kind |-> "notarray"]

\* JSON.stringify(array, null, 2): the text of an array.  Properties whose
\* value is undefined are left out, which a record without the field already is.
JSONStringify(items) == [kind |-> "array", items |-> items]

\* A value in memory: an array, or a parsed JSON value that is no array.
ArrayValue(items) == [kind |-> "array", items |-> items]
NotArrayValue == [kind |-> "notarray"]
EmptyArray == ArrayValue(<< >>)

\* fs.readFile + JSON.parse inside try/catch: readUsers / readActivity.
\* ioError: fs.readFile rejects although the file may be fine (EIO, EMFILE, ...).
ReadThrows(file, ioError) == ioError \/ file.kind \in {"missing", "unparseable"}

\* Faulty variant: a failed load is not caught; the handler answers 500
ReadJSONRethrows(file, ioError) ==
    IF ReadThrows(file, ioError) \/ file.kind = "notarray"
    THEN NotArrayValue
    ELSE ArrayValue(file.items)

ReadJSON(file, ioError) ==
    IF ReadThrows(file, ioError)
    THEN EmptyArray
    ELSE IF file.kind = "notarray" THEN NotArrayValue
    ELSE ArrayValue(file.items)

\* Faulty variant: the load does not see what was written before
ReadNothing(ioError) == EmptyArray

readUsers(ioError) == ReadJSON(usersFile, ioError)
readActivity(ioError) == ReadJSON(activityFile, ioError)

\* Outcomes of fs.writeFile(file, text): it resolves with the file replaced;
\* or it rejects before the file is opened (file unchanged); or it rejects
\* after the file was opened for writing (truncated, partly written).
WriteOutcomes(faults) == IF faults THEN {"ok", "unchanged", "truncated"} ELSE {"ok"}

\* Faulty variant: a write that rejects without truncating has replaced the file
WriteFileLands(old, items, outcome) ==
    IF outcome = "truncated" THEN CorruptFile ELSE JSONStringify(items)

WriteFile(old, items, outcome) ==
    CASE outcome = "ok" -> JSONStringify(items)
      [] outcome = "unchanged" -> old
      [] outcome = "truncated" -> CorruptFile

\* The users / events a GET would list: the array in the file, if there is one.
Stored(file) == IF file.kind = "array" THEN file.items ELSE << >>
StoredUsers == Stored(usersFile)
StoredEvents == Stored(activityFile)

(***************************************************************************)
(* Time.  new Date().toISOString() is <day>T<time>.                        *)
(***************************************************************************)
DayTok == <<"2026-01-01", "2026-01-02", "2026-01-03", "2026-01-04">>
TimeTok == <<"00:00:00.000Z", "12:00:00.000Z">>
toISOString(t) == <<DayTok[(t \div 2) + 1], "T", TimeTok[(t % 2) + 1]>>

\* s.split('T')[0]: the part of s before the first 'T'.
RECURSIVE SplitT0(_)
SplitT0(s) ==
    IF s = << >> \/ Head(s) = "T" THEN << >> ELSE <<Head(s)>> \o SplitT0(Tail(s))

(***************************************************************************)
(* JavaScript helpers.                                                     *)
(***************************************************************************)
Has(o, f) == f \in DOMAIN o
\* !o.f is false: the property is there and is not the empty string.
Truthy(o, f) == Has(o, f) /\ o[f] # ""
\* messagesSent || 0
NumOrZero(o, f) == IF Has(o, f) THEN o[f] ELSE 0
\* o.f || dflt, for string valued properties
StrOr(o, f, dflt) == IF Truthy(o, f) THEN o[f] ELSE dflt

\* Array.prototype.find / findIndex: the first of the indices whose element
\* satisfies the callback, 0 if there is none.
FirstOf(indices) ==
    IF indices = {} THEN 0 ELSE CHOOSE i \in indices : \A j \in indices : i <= j

(***************************************************************************)
(* Request bodies.                                                         *)
(***************************************************************************)
Opt(f, S) == {<< >>} \cup {[x \in {f} |-> v] : v \in S}

Ids == {"u1", "u2"}
Emails == {"e1", "e2"}
SuppliedRegisteredAt == <<"2025-12-31", "T", "08:00:00.000Z">>
\* A date-only timestamp, older than every value of the clock.
SuppliedTimestamp == <<"2025-12-30">>

\* Bodies without one of the required fields, or with an empty id.
InvalidRegisterBodies ==
    {[username |-> "ann", email |-> "e1"], [id |-> "u1", email |-> "e1"],
     [id |-> "u1", username |-> "ann"], [id |-> "", username |-> "ann", email |-> "e1"],
     << >>}

\* Every id with every email; registeredAt and version both supplied or both not.
ValidRegisterBodies ==
    {[id |-> i, username |-> "ann", email |-> e] @@ d :
        i \in Ids, e \in Emails,
        d \in {<< >>, [registeredAt |-> SuppliedRegisteredAt, version |-> "2.0.0"]}}

InvalidActivityBodies ==
    {[action |-> "stop"], [userId |-> "u1"], [userId |-> "u1", action |-> ""],
     [messagesSent |-> 5, timestamp |-> SuppliedTimestamp]}

ValidActivityBodies ==
    {[userId |-> "u1", action |-> "stop"],
     [userId |-> "u2", action |-> "start", messagesSent |-> 5,
      timestamp |-> SuppliedTimestamp]}

\* The bodies of Spec, where requests overlap: two users that share the email
\* or the id with a third, and one body that is not valid.
RegisterBodies ==
    {[id |-> "u1", username |-> "ann", email |-> "e1"],
     [id |-> "u2", username |-> "ann", email |-> "e2"],
     [id |-> "u2", username |-> "ann", email |-> "e1"],
     [id |-> "u1", username |-> "ann"]}

ActivityBodies ==
    {[userId |-> "u1", action |-> "stop", timestamp |-> SuppliedTimestamp],
     [userId |-> "u2", action |-> "start", messagesSent |-> 5],
     [userId |-> "u1"]}

(***************************************************************************)
(* Request slots.                                                          *)
(***************************************************************************)
Idle == [op |-> "none", pc |-> "idle"]

InFlight(r) == req[r].pc \notin {"idle", "done"}
Done(r) == req[r].pc = "done"

\* The handler goes on with more local state (left operand wins in @@).
With(r, fields) == fields @@ req[r]

\* History kept with a request: io, the storage calls of the request that
\* failed; wrote, the files it called fs.writeFile on; overlapped, whether
\* another request was in flight at any time while it ran; at, the clock when
\* the response was sent.
Arrive(r, op, body) ==
    [op |-> op, pc |-> "start", body |-> body, io |-> {}, wrote |-> {},
     overlapped |-> \E q \in Requests \ {r} : InFlight(q)]

MarkOverlap(r) ==
    [q \in Requests |->
        IF q # r /\ InFlight(q) THEN [req[q] EXCEPT !.overlapped = TRUE] ELSE req[q]]

\* res.status(s).json(b): the handler is over.
Response(r, status, payload, io) ==
    [op |-> req[r].op, pc |-> "done", body |-> req[r].body,
     status |-> status, json |-> payload, io |-> req[r].io \cup io,
     wrote |-> req[r].wrote, overlapped |-> req[r].overlapped, at |-> now]

\* The request in slot r moves on to `next`.
Step(r, next) ==
    /\ req' = [req EXCEPT ![r] = next]
    /\ latest' = IF next.pc = "done" THEN r ELSE latest

ReadFault(file, ioError) == IF ReadThrows(file, ioError) THEN {"read"} ELSE {}
WriteFault(outcome) == IF outcome = "ok" THEN {} ELSE {"write"}
IoErrors(faults) == IF faults THEN BOOLEAN ELSE {FALSE}

Init ==
    /\ usersFile = JSONStringify(<< >>)
    /\ activityFile = JSONStringify(<< >>)
    /\ req = [r \in Requests |-> Idle]
    /\ now = 0
    /\ started = TRUE
    /\ latest = 0


\* Faulty variant: the write is not awaited: its failure goes unnoticed
AfterWriteUnawaited(r, outcome, next, error) ==
    [next EXCEPT !.io = @ \cup WriteFault(outcome)]

\* await writeUsers(..) / await writeActivity(..) inside the handler's try: the
\* handler goes on to `next`, or the write throws and the catch answers 500.
AfterWrite(r, outcome, next, error) ==
    IF outcome = "ok" THEN next ELSE Response(r, 500, error, WriteFault(outcome))

(***************************************************************************)
(* initializeStorage(), awaited before app.listen.                         *)
(***************************************************************************)
\* Faulty variant: the file is written whether it exists or not
InitFileAlways(file, accessError, outcome) == WriteFile(file, << >>, outcome)

\* try { await fs.access(file) } catch { await fs.writeFile(file, '[]') }
\* access throws for a missing file, and for any file when it fails itself.
InitFile(file, accessError, outcome) ==
    IF file.kind = "missing" \/ accessError
    THEN WriteFile(file, << >>, outcome)
    ELSE file

InitThrows(file, accessError, outcome) ==
    (file.kind = "missing" \/ accessError) /\ outcome # "ok"

\* mkdir, then the users file, then the activity file; the first call that
\* throws ends the function in its catch, and the server starts all the same.
InitializeStorage(faults) ==
    /\ ~started
    /\ started' = TRUE
    /\ \E mkdirError, accessU, accessA \in IoErrors(faults) :
       \E outU, outA \in WriteOutcomes(faults) :
        IF mkdirError
        THEN UNCHANGED <<usersFile, activityFile>>
        ELSE /\ usersFile' = InitFile(usersFile, accessU, outU)
             /\ activityFile' =
                    IF InitThrows(usersFile, accessU, outU)
                    THEN activityFile
                    ELSE InitFile(activityFile, accessA, outA)
    /\ UNCHANGED <<req, now, latest>>

(***************************************************************************)
(* POST /api/register                                                      *)
(***************************************************************************)
\* Faulty variant: the username is not checked
MissingIdOrEmail(body) == ~Truthy(body, "id") \/ ~Truthy(body, "email")

\* !id || !username || !email
MissingRegisterFields(body) ==
    ~Truthy(body, "id") \/ ~Truthy(body, "username") \/ ~Truthy(body, "email")

\* u => u.id === id || u.email === email
SameIdentity(u, body) ==
    (Has(u, "id") /\ u.id = body.id) \/ (Has(u, "email") /\ u.email = body.email)

\* Faulty variant: the lookup compares the id only
FindExistingByIdOnly(users, body) ==
    FirstOf({i \in 1..Len(users) : Has(users[i], "id") /\ users[i].id = body.id})

\* users.find(...): the index of the first match, 0 when find returns undefined.
FindExisting(users, body) ==
    FirstOf({i \in 1..Len(users) : SameIdentity(users[i], body)})

\* Faulty variant: lastActive starts as the registration time
NewUserSeenAtRegistration(body, t) ==
    [id |-> body.id, username |-> body.username, email |-> body.email,
     registeredAt |-> StrOr(body, "registeredAt", toISOString(t)),
     version |-> StrOr(body, "version", DEFAULT_VERSION),
     lastActive |-> StrOr(body, "registeredAt", toISOString(t))]

NewUser(body, t) ==
    [id |-> body.id, username |-> body.username, email |-> body.email,
     registeredAt |-> StrOr(body, "registeredAt", toISOString(t)),
     version |-> StrOr(body, "version", DEFAULT_VERSION),
     lastActive |-> toISOString(t)]

\* A request arrives at a free slot.  The handler runs up to its first await
\* (pc = first) or, when `invalid`, answers 400 at once.
Arrives(r, op, body, invalid, first) ==
    /\ LET a == Arrive(r, op, body) IN
       IF invalid
       THEN Step(r, [a EXCEPT !.pc = "done"] @@
                    [status |-> 400, json |-> [error |-> "Missing required fields"]])
       ELSE /\ req' = [MarkOverlap(r) EXCEPT ![r] = [a EXCEPT !.pc = first]]
            /\ latest' = latest
    /\ UNCHANGED <<usersFile, activityFile, now, started>>

\* The request arrives; the handler validates the body and calls readUsers().
Register(r, bodies) ==
    /\ started /\ ~InFlight(r)
    /\ \E body \in bodies :
        Arrives(r, "register", body, MissingRegisterFields(body), "readUsers")

\* readUsers() returns; find; either answer "already registered" or push the
\* new user and call writeUsers(users).
RegisterAfterReadUsers(r, faults) ==
    /\ req[r].op = "register" /\ req[r].pc = "readUsers"
    /\ \E ioError \in IoErrors(faults) :
        LET users == readUsers(ioError)
            io == ReadFault(usersFile, ioError)
            body == req[r].body
        IN  IF users.kind # "array"
            THEN \* users.find is not a function: TypeError, caught at line 107
                 Step(r, Response(r, 500, [error |-> "Registration failed"], io))
            ELSE LET i == FindExisting(users.items, body) IN
                 IF i # 0
                 THEN Step(r, Response(r, 200, [message |-> "User already registered",
                                                user |-> users.items[i]], io))
                 ELSE LET newUser == NewUser(body, now) IN
                      Step(r, With(r, [pc |-> "writeUsers",
                                       users |-> Append(users.items, newUser),
                                       newUser |-> newUser,
                                       io |-> req[r].io \cup io,
                                       wrote |-> req[r].wrote \cup {"users"}]))
    /\ UNCHANGED <<usersFile, activityFile, now, started>>

\* writeUsers(users) returns or throws; the response.
RegisterAfterWriteUsers(r, faults) ==
    /\ req[r].op = "register" /\ req[r].pc = "writeUsers"
    /\ \E outcome \in WriteOutcomes(faults) :
        /\ usersFile' = WriteFile(usersFile, req[r].users, outcome)
        /\ Step(r, AfterWrite(r, outcome,
                    Response(r, 200, [success |-> TRUE, user |-> req[r].newUser], {}),
                    [error |-> "Registration failed"]))
    /\ UNCHANGED <<activityFile, now, started>>

(***************************************************************************)
(* POST /api/activity                                                      *)
(***************************************************************************)
\* !userId || !action
MissingActivityFields(body) == ~Truthy(body, "userId") \/ ~Truthy(body, "action")

\* Faulty variant: when no user has the id, the first user is taken
FindUserOrFirst(users, userId) ==
    LET found == {i \in 1..Len(users) : Has(users[i], "id") /\ users[i].id = userId}
    IN  IF found # {} THEN FirstOf(found) ELSE IF users # << >> THEN 1 ELSE 0

\* users.findIndex(u => u.id === userId), 0 for -1
FindUser(users, userId) ==
    FirstOf({i \in 1..Len(users) : Has(users[i], "id") /\ users[i].id = userId})

\* Faulty variant: the array is replaced by the one user that was touched
TouchAlone(users, i, body, t) ==
    <<[lastActive |-> StrOr(body, "timestamp", toISOString(t))] @@ users[i]>>

\* Faulty variant: registeredAt is stamped along with lastActive
TouchAll(users, i, body, t) ==
    [users EXCEPT ![i] =
        [lastActive |-> StrOr(body, "timestamp", toISOString(t)),
         registeredAt |-> StrOr(body, "timestamp", toISOString(t))] @@ users[i]]

\* Faulty variant: the supplied timestamp is ignored
TouchNow(users, i, body, t) ==
    [users EXCEPT ![i] = [lastActive |-> toISOString(t)] @@ users[i]]

\* users[userIndex].lastActive = timestamp || new Date().toISOString()
Touch(users, i, body, t) ==
    [users EXCEPT ![i] =
        [lastActive |-> StrOr(body, "timestamp", toISOString(t))] @@ users[i]]

NewEvent(body, t) ==
    [userId |-> body.userId, action |-> body.action,
     messagesSent |-> NumOrZero(body, "messagesSent"),
     timestamp |-> StrOr(body, "timestamp", toISOString(t))]

\* Faulty variant: the newest entries are dropped
RetainOldest(activity) ==
    IF Len(activity) > RETENTION THEN SubSeq(activity, 1, RETENTION) ELSE activity

\* Faulty variant: nothing is dropped
RetainAll(activity) == activity

\* if (activity.length > 1000) activity.splice(0, activity.length - 1000)
Retain(activity) ==
    IF Len(activity) > RETENTION
    THEN SubSeq(activity, Len(activity) - RETENTION + 1, Len(activity))
    ELSE activity

\* The request arrives; validation; readUsers() is called.  (open bounds the
\* model: it tells whether the clients still post events.)
Activity(r, bodies, open) ==
    /\ started /\ ~InFlight(r)
    /\ \E body \in bodies :
        /\ MissingActivityFields(body) \/ open
        /\ Arrives(r, "activity", body, MissingActivityFields(body), "readUsers")

\* readUsers() returns; findIndex; a known user is touched and writeUsers is
\* called, an unknown one goes straight to readActivity().
ActivityAfterReadUsers(r, faults) ==
    /\ req[r].op = "activity" /\ req[r].pc = "readUsers"
    /\ \E ioError \in IoErrors(faults) :
        LET users == readUsers(ioError)
            io == ReadFault(usersFile, ioError)
            body == req[r].body
        IN  IF users.kind # "array"
            THEN \* users.findIndex is not a function: TypeError, caught at line 147
                 Step(r, Response(r, 500, [error |-> "Failed to log activity"], io))
            ELSE LET userIndex == FindUser(users.items, body.userId) IN
                 IF userIndex # 0
                 THEN Step(r, With(r, [pc |-> "writeUsers",
                                       users |-> Touch(users.items, userIndex, body, now),
                                       io |-> req[r].io \cup io,
                                       wrote |-> req[r].wrote \cup {"users"}]))
                 ELSE Step(r, With(r, [pc |-> "readActivity", io |-> req[r].io \cup io]))
    /\ UNCHANGED <<usersFile, activityFile, now, started>>

\* writeUsers(users) returns or throws; on success readActivity() is called.
ActivityAfterWriteUsers(r, faults) ==
    /\ req[r].op = "activity" /\ req[r].pc = "writeUsers"
    /\ \E outcome \in WriteOutcomes(faults) :
        /\ usersFile' = WriteFile(usersFile, req[r].users, outcome)
        /\ Step(r, AfterWrite(r, outcome, With(r, [pc |-> "readActivity"]),
                               [error |-> "Failed to log activity"]))
    /\ UNCHANGED <<activityFile, now, started>>

\* readActivity() returns; push; splice; writeActivity(activity) is called.
ActivityAfterReadActivity(r, faults) ==
    /\ req[r].op = "activity" /\ req[r].pc = "readActivity"
    /\ \E ioError \in IoErrors(faults) :
        LET activity == readActivity(ioError)
            io == ReadFault(activityFile, ioError)
        IN  IF activity.kind # "array"
            THEN \* activity.push is not a function
                 Step(r, Response(r, 500, [error |-> "Failed to log activity"], io))
            ELSE Step(r, With(r, [pc |-> "writeActivity",
                                  activity |-> Retain(Append(activity.items,
                                                             NewEvent(req[r].body, now))),
                                  io |-> req[r].io \cup io,
                                  wrote |-> req[r].wrote \cup {"activity"}]))
    /\ UNCHANGED <<usersFile, activityFile, now, started>>

\* writeActivity(activity) returns or throws; the response.
ActivityAfterWriteActivity(r, faults) ==
    /\ req[r].op = "activity" /\ req[r].pc = "writeActivity"
    /\ \E outcome \in WriteOutcomes(faults) :
        /\ activityFile' = WriteFile(activityFile, req[r].activity, outcome)
        /\ Step(r, AfterWrite(r, outcome, Response(r, 200, [success |-> TRUE], {}),
                               [error |-> "Failed to log activity"]))
    /\ UNCHANGED <<usersFile, now, started>>

(***************************************************************************)
(* GET /api/users, GET /api/activity                                       *)
(***************************************************************************)
GetUsers(r) ==
    /\ started /\ ~InFlight(r)
    /\ Arrives(r, "users", << >>, FALSE, "readUsers")

\* Faulty variant: the list is handed out and the file is emptied
GetUsersAfterReadClearing(r, faults) ==
    /\ req[r].op = "users" /\ req[r].pc = "readUsers"
    /\ Step(r, Response(r, 200, [users |-> readUsers(FALSE)], {}))
    /\ usersFile' = JSONStringify(<< >>)
    /\ UNCHANGED <<activityFile, now, started>>

\* res.json({ users }): whatever readUsers() returned.
GetUsersAfterRead(r, faults) ==
    /\ req[r].op = "users" /\ req[r].pc = "readUsers"
    /\ \E ioError \in IoErrors(faults) :
        Step(r, Response(r, 200, [users |-> readUsers(ioError)],
                         ReadFault(usersFile, ioError)))
    /\ UNCHANGED <<usersFile, activityFile, now, started>>

GetActivity(r) ==
    /\ started /\ ~InFlight(r)
    /\ Arrives(r, "getActivity", << >>, FALSE, "readActivity")

GetActivityAfterRead(r, faults) ==
    /\ req[r].op = "getActivity" /\ req[r].pc = "readActivity"
    /\ \E ioError \in IoErrors(faults) :
        Step(r, Response(r, 200, [activity |-> readActivity(ioError)],
                         ReadFault(activityFile, ioError)))
    /\ UNCHANGED <<usersFile, activityFile, now, started>>

(***************************************************************************)
(* GET /api/stats                                                          *)
(***************************************************************************)
\* now.toISOString().split('T')[0]
Today(t) == SplitT0(toISOString(t))

\* Faulty variant: lastActive is compared as it is
IsActiveExactly(u, today) ==
    Has(u, "lastActive") /\ u.lastActive # << >> /\ u.lastActive = today

\* u.lastActive ? u.lastActive.split('T')[0] : null, compared with today
IsActiveOn(u, today) ==
    Has(u, "lastActive") /\ u.lastActive # << >> /\ SplitT0(u.lastActive) = today

\* users.filter(...).length
ActiveToday(users, today) ==
    Cardinality({i \in 1..Len(users) : IsActiveOn(users[i], today)})

\* Faulty variant: every event counts
IsAnyAction(a) == Has(a, "action")

\* a => a.action === 'stop'
IsStop(a) == Has(a, "action") /\ a.action = "stop"

\* activity.filter(...).reduce((sum, a) => sum + (a.messagesSent || 0), 0)
RECURSIVE TotalMessages(_)
TotalMessages(activity) ==
    IF activity = << >> THEN 0
    ELSE (IF IsStop(Head(activity)) THEN NumOrZero(Head(activity), "messagesSent") ELSE 0)
         + TotalMessages(Tail(activity))

computeStats(users, activity, t) ==
    [totalUsers |-> Len(users),
     activeToday |-> ActiveToday(users, Today(t)),
     totalMessages |-> TotalMessages(activity)]

GetStats(r) ==
    /\ started /\ ~InFlight(r)
    /\ Arrives(r, "stats", << >>, FALSE, "readUsers")

\* readUsers() returns; readActivity() is called.
GetStatsAfterReadUsers(r, faults) ==
    /\ req[r].op = "stats" /\ req[r].pc = "readUsers"
    /\ \E ioError \in IoErrors(faults) :
        Step(r, With(r, [pc |-> "readActivity", users |-> readUsers(ioError),
                         io |-> req[r].io \cup ReadFault(usersFile, ioError)]))
    /\ UNCHANGED <<usersFile, activityFile, now, started>>

\* readActivity() returns; the counters are computed and sent.
GetStatsAfterReadActivity(r, faults) ==
    /\ req[r].op = "stats" /\ req[r].pc = "readActivity"
    /\ \E ioError \in IoErrors(faults) :
        LET users == req[r].users
            activity == readActivity(ioError)
            io == ReadFault(activityFile, ioError)
        IN  IF users.kind # "array" \/ activity.kind # "array"
            THEN \* users.filter / activity.filter is not a function
                 Step(r, Response(r, 500, [error |-> "Failed to fetch stats"], io))
            ELSE Step(r, Response(r, 200,
                                  computeStats(users.items, activity.items, now), io))
    /\ UNCHANGED <<usersFile, activityFile, now, started>>

(***************************************************************************)
(* The clock.                                                              *)
(***************************************************************************)
Tick ==
    /\ now < MaxTime
    /\ now' = now + 1
    /\ UNCHANGED <<usersFile, activityFile, req, started, latest>>

(***************************************************************************)
(* Spec: requests in any order and any interleaving, storage without       *)
(* faults, both stores empty at the start.                                 *)
(***************************************************************************)
\* The handlers after their first await.
Continue(r, faults) ==
    \/ RegisterAfterReadUsers(r, faults)
    \/ RegisterAfterWriteUsers(r, faults)
    \/ ActivityAfterReadUsers(r, faults)
    \/ ActivityAfterWriteUsers(r, faults)
    \/ ActivityAfterReadActivity(r, faults)
    \/ ActivityAfterWriteActivity(r, faults)
    \/ GetUsersAfterRead(r, faults)
    \/ GetActivityAfterRead(r, faults)
    \/ GetStatsAfterReadUsers(r, faults)
    \/ GetStatsAfterReadActivity(r, faults)

Next ==
    \E r \in Requests :
        \/ Register(r, RegisterBodies)
        \/ Activity(r, ActivityBodies, Len(StoredEvents) < MaxLog)
        \/ GetUsers(r)
        \/ GetActivity(r)
        \/ GetStats(r)
        \/ Continue(r, FALSE)

Spec == Init /\ [][Next]_vars

(***************************************************************************)
(* SpecSeq: one request at a time, each run to its response before the     *)
(* next arrives: register, activity and GET /api/users with all bodies.    *)
(* Requests take the slots in turn, so the other slot shows the request    *)
(* answered just before.                                                   *)
(***************************************************************************)
SeqSlots == {1, 2}
Quiet == \A q \in Requests : ~InFlight(q)
Turn(r) == Quiet /\ r \in SeqSlots /\ r # latest /\ (latest = 0 => r = 1)

NextSeq ==
    \E r \in Requests :
        \/ Turn(r) /\ Register(r, InvalidRegisterBodies \cup ValidRegisterBodies)
        \/ Turn(r) /\ Activity(r, InvalidActivityBodies \cup ValidActivityBodies,
                                Len(StoredEvents) < MaxLog)
        \/ Turn(r) /\ GetUsers(r)
        \/ RegisterAfterReadUsers(r, FALSE)
        \/ RegisterAfterWriteUsers(r, FALSE)
        \/ ActivityAfterReadUsers(r, FALSE)
        \/ ActivityAfterWriteUsers(r, FALSE)
        \/ ActivityAfterReadActivity(r, FALSE)
        \/ ActivityAfterWriteActivity(r, FALSE)
        \/ GetUsersAfterRead(r, FALSE)

SpecSeq == Init /\ [][NextSeq]_vars

(***************************************************************************)
(* SpecFaults: the disk holds anything when the process starts, and every  *)
(* storage call can fail.  One request at a time, the bodies of Spec.      *)
(***************************************************************************)
OldUser ==
    [id |-> "u1", username |-> "ann", email |-> "e1",
     registeredAt |-> SuppliedRegisteredAt, version |-> "2.0.0",
     lastActive |-> SuppliedRegisteredAt]

OldEvent ==
    [userId |-> "u1", action |-> "stop", messagesSent |-> 5,
     timestamp |-> SuppliedRegisteredAt]

DiskStates(old) ==
    {MissingFile, CorruptFile, NotArrayFile, JSONStringify(<< >>), JSONStringify(<<old>>)}

InitFaults ==
    /\ usersFile \in DiskStates(OldUser)
    /\ activityFile \in DiskStates(OldEvent)
    /\ req = [r \in Requests |-> Idle]
    /\ now = 0
    /\ started = FALSE
    /\ latest = 0

NextFaults ==
    \/ InitializeStorage(TRUE)
    \/ \E r \in Requests :
        \/ Turn(r) /\ Register(r, RegisterBodies)
        \/ Turn(r) /\ Activity(r, ActivityBodies, Len(StoredEvents) < MaxLog)
        \/ Turn(r) /\ GetUsers(r)
        \/ Turn(r) /\ GetActivity(r)
        \/ Turn(r) /\ GetStats(r)
        \/ Continue(r, TRUE)

SpecFaults == InitFaults /\ [][NextFaults]_vars

(***************************************************************************)
(* SpecRetention: POST /api/activity called MaxCalls times, one call after *)
(* the other, on an empty log.  The k-th call carries messagesSent = k.    *)
(***************************************************************************)
\* The number of the call that was answered last.
CallsAnswered == IF Done(1) THEN req[1].body.messagesSent ELSE 0

NthCall(k) == [userId |-> "u1", action |-> "stop", messagesSent |-> k]

\* The log and the slot that calls 1..n leave behind on an empty log that is
\* shorter than the retention window.
LogAfter(n) == [k \in 1..n |-> NewEvent(NthCall(k), 0)]
SlotAfter(n) ==
    IF n = 0 THEN Idle
    ELSE [op |-> "activity", pc |-> "done", body |-> NthCall(n), status |-> 200,
          json |-> [success |-> TRUE], io |-> {}, wrote |-> {"activity"},
          overlapped |-> FALSE, at |-> 0]

\* The empty store, and the store RETENTION - 2 calls later (a state the steps
\* below reach from the empty store as well; starting there too keeps the
\* behaviours that cross the retention window short).
InitRetention ==
    \E n \in {0, RETENTION - 2} :
        /\ usersFile = JSONStringify(<< >>)
        /\ activityFile = JSONStringify(LogAfter(n))
        /\ req = [r \in Requests |-> IF r = 1 THEN SlotAfter(n) ELSE Idle]
        /\ now = 0
        /\ started = TRUE
        /\ latest = IF n = 0 THEN 0 ELSE 1

NextRetention ==
    \/ Quiet /\ StoredUsers = << >> /\ StoredEvents = << >> /\ req[1].op = "none"
             /\ Register(2, {[id |-> "u1", username |-> "ann", email |-> "e1"]})
    \/ RegisterAfterReadUsers(2, FALSE)
    \/ RegisterAfterWriteUsers(2, FALSE)
    \/ Quiet /\ Activity(1, {NthCall(CallsAnswered + 1)}, CallsAnswered < MaxCalls)
    \/ ActivityAfterReadUsers(1, FALSE)
    \/ ActivityAfterWriteUsers(1, FALSE)
    \/ ActivityAfterReadActivity(1, FALSE)
    \/ ActivityAfterWriteActivity(1, FALSE)

SpecRetention == InitRetention /\ [][NextRetention]_vars

(***************************************************************************)
(* SpecWindow: overlapping POST /api/activity and GET /api/activity on a   *)
(* log that starts empty, one short of full, or full.                      *)
(***************************************************************************)
Filled(n, e) == [i \in 1..n |-> e]

NewEvents == Cardinality({i \in 1..Len(StoredEvents) : StoredEvents[i] # OldEvent})

InitWindow ==
    /\ usersFile = JSONStringify(<< >>)
    /\ activityFile \in {JSONStringify(Filled(n, OldEvent)) :
                            n \in {0, RETENTION - 1, RETENTION}}
    /\ req = [r \in Requests |-> Idle]
    /\ now = 0
    /\ started = TRUE
    /\ latest = 0

NextWindow ==
    \E r \in Requests :
        \/ Activity(r, {[userId |-> "u2", action |-> "start"]}, NewEvents < MaxLog)
        \/ ActivityAfterReadUsers(r, FALSE)
        \/ ActivityAfterReadActivity(r, FALSE)
        \/ ActivityAfterWriteActivity(r, FALSE)
        \/ GetActivity(r)
        \/ GetActivityAfterRead(r, FALSE)

SpecWindow == InitWindow /\ [][NextWindow]_vars

(***************************************************************************)
(* SpecStats: GET /api/stats over the data files the process finds on disk *)
(* (arrays of any users and events), while the clock runs.                 *)
(***************************************************************************)
UserIds == <<"u1", "u2", "u3", "u4">>
UserEmails == <<"e1", "e2", "e3", "e4">>

\* The i-th user on disk: never active, last active at noon of the first day,
\* or last active at midnight of the second day.
DiskUsers(i) ==
    {[id |-> UserIds[i], username |-> "ann", email |-> UserEmails[i],
      registeredAt |-> SuppliedRegisteredAt, version |-> DEFAULT_VERSION] @@ la :
        la \in Opt("lastActive", {toISOString(1), toISOString(2)})}

DiskEvents ==
    {[userId |-> "u1", action |-> a, timestamp |-> toISOString(0)] @@ m :
        a \in {"stop", "start"}, m \in Opt("messagesSent", {5, 99})}

\* The arrays of at most MaxUsers users and of at most MaxEvents events.
DiskUserArrays ==
    UNION {{us \in [1..k -> UNION {DiskUsers(i) : i \in 1..k}] :
                \A i \in 1..k : us[i] \in DiskUsers(i)} : k \in 0..MaxUsers}
DiskEventArrays == UNION {[1..k -> DiskEvents] : k \in 0..MaxEvents}

InitStats ==
    /\ usersFile \in {JSONStringify(us) : us \in DiskUserArrays}
    /\ activityFile \in {JSONStringify(es) : es \in DiskEventArrays}
    /\ req = [r \in Requests |-> Idle]
    /\ now = 0
    /\ started = TRUE
    /\ latest = 0

NextStats ==
    \/ GetStats(1)
    \/ GetStatsAfterReadUsers(1, FALSE)
    \/ GetStatsAfterReadActivity(1, FALSE)
    \/ Tick

SpecStats == InitStats /\ [][NextStats]_vars

(***************************************************************************)
(* SpecRace: register requests for one id with different registeredAt      *)
(* values and activity for that id, in any interleaving; storage without   *)
(* faults, both stores empty at the start.                                 *)
(***************************************************************************)
RaceRegisterBodies ==
    {[id |-> "u1", username |-> "ann", email |-> "e1"],
     [id |-> "u1", username |-> "ann", email |-> "e1",
      registeredAt |-> SuppliedRegisteredAt, version |-> "2.0.0"]}

RaceActivityBodies == {[userId |-> "u1", action |-> "stop"]}

NextRace ==
    \E r \in Requests :
        \/ Register(r, RaceRegisterBodies)
        \/ Activity(r, RaceActivityBodies, Len(StoredEvents) < MaxLog)
        \/ RegisterAfterReadUsers(r, FALSE)
        \/ RegisterAfterWriteUsers(r, FALSE)
        \/ ActivityAfterReadUsers(r, FALSE)
        \/ ActivityAfterWriteUsers(r, FALSE)
        \/ ActivityAfterReadActivity(r, FALSE)
        \/ ActivityAfterWriteActivity(r, FALSE)

SpecRace == Init /\ [][NextRace]_vars

(***************************************************************************)
(* SpecStart: the process starts on a disk that holds anything, storage    *)
(* calls do not fail; then register and the two list requests, one at a    *)
(* time.                                                                   *)
(***************************************************************************)
NextStart ==
    \/ InitializeStorage(FALSE)
    \/ \E r \in Requests :
        \/ Turn(r) /\ Register(r, RegisterBodies)
        \/ Turn(r) /\ GetUsers(r)
        \/ Turn(r) /\ GetActivity(r)
        \/ RegisterAfterReadUsers(r, FALSE)
        \/ RegisterAfterWriteUsers(r, FALSE)
        \/ GetUsersAfterRead(r, FALSE)
        \/ GetActivityAfterRead(r, FALSE)

SpecStart == InitFaults /\ [][NextStart]_vars

(***************************************************************************)
(* Properties.                                                             *)
(***************************************************************************)
Moved(r) == req'[r] # req[r]
Ok(r) == Done(r) /\ req[r].status = 200

IdsOf(users) == {users[i].id : i \in 1..Len(users)}
EmailsOf(users) == {users[i].email : i \in 1..Len(users)}

NoDuplicates(users) ==
    \A i, j \in 1..Len(users) :
        i # j => users[i].id # users[j].id /\ users[i].email # users[j].email

\* C1: from empty stores, under any interleaving of register and activity
\* requests, no two stored users share an id and no two share an email.
C1_UniqueIdAndEmail == NoDuplicates(StoredUsers)

\* C1 witness: two users are stored, and a request that overlapped another
\* was answered "already registered".
C1_Witness ==
    /\ Len(StoredUsers) = 2
    /\ \E r \in Requests :
        /\ Ok(r) /\ req[r].op = "register" /\ req[r].overlapped
        /\ Has(req[r].json, "message")

\* The request lacks a field the spec requires.
MissingFields(rq) ==
    \/ rq.op = "register" /\ \E f \in {"id", "username", "email"} : ~Has(rq.body, f)
    \/ rq.op = "activity" /\ \E f \in {"userId", "action"} : ~Has(rq.body, f)

\* C3: a register request without id, username or email, and an activity
\* request without userId or action, is answered 400 in the step it arrives in,
\* and that step changes neither file.
C3_ValidationRejects ==
    [][\A r \in Requests :
        (Moved(r) /\ req'[r].pc # "idle" /\ MissingFields(req'[r]))
            => /\ req'[r].pc = "done" /\ req'[r].status = 400
               /\ req'[r].wrote = {}
               /\ usersFile' = usersFile /\ activityFile' = activityFile]_vars

\* C3 witness: with a user and an event stored, a register request and an
\* activity request were both answered 400.
C3_Witness ==
    /\ StoredUsers # << >> /\ StoredEvents # << >>
    /\ \E r, q \in Requests :
        /\ Done(r) /\ req[r].op = "register" /\ req[r].status = 400
        /\ Done(q) /\ req[q].op = "activity" /\ req[q].status = 400

\* The request in slot r was answered last, the one in slot q just before it;
\* q registered a new user and r is a complete register request with q's id or
\* q's email.
RegisteredAgain(q, r) ==
    /\ q # r /\ latest = r /\ Done(q) /\ Done(r)
    /\ req[q].op = "register" /\ Ok(q) /\ Has(req[q].json, "success")
    /\ req[r].op = "register"
    /\ \A f \in {"id", "username", "email"} : Has(req[r].body, f) /\ req[r].body[f] # ""
    /\ req[r].body.id = req[q].body.id \/ req[r].body.email = req[q].body.email

Matches(u, body) == u.id = body.id \/ u.email = body.email

OneStoredFor(body) ==
    /\ Cardinality({i \in 1..Len(StoredUsers) : StoredUsers[i].id = body.id}) = 1
    /\ Cardinality({i \in 1..Len(StoredUsers) : StoredUsers[i].email = body.email}) = 1

\* C2 as claimed: the second of two register calls with the same id or the
\* same email is answered 200 with the record the first call stored, writes
\* nothing, and one user is stored for that id and email.
C2_SecondReturnsFirst ==
    \A q, r \in Requests :
        RegisteredAgain(q, r)
            => /\ req[r].status = 200
               /\ req[r].json.user = req[q].json.user
               /\ req[r].wrote = {}
               /\ OneStoredFor(req[q].body)

\* C2 amended: the second call is answered 200 with the earliest stored user
\* that has its id or its email, which is the first call's record unless a
\* user stored before has the second call's id or email; it writes nothing
\* and one user is stored for the first call's id and email.
C2_SecondReturnsEarliestMatch ==
    \A q, r \in Requests :
        RegisteredAgain(q, r)
            => /\ req[r].status = 200
               /\ \E k \in 1..Len(StoredUsers) :
                    /\ Matches(StoredUsers[k], req[r].body)
                    /\ \A j \in 1..(k - 1) : ~Matches(StoredUsers[j], req[r].body)
                    /\ req[r].json.user = StoredUsers[k]
                    /\ k = Len(StoredUsers) => req[r].json.user = req[q].json.user
               /\ req[r].wrote = {}
               /\ OneStoredFor(req[q].body)

\* C2 witness: the second call had the first call's email and another id, and
\* got the first call's record.
C2_Witness ==
    \E q, r \in Requests :
        /\ RegisteredAgain(q, r)
        /\ req[r].body.id # req[q].body.id
        /\ req[r].json.user = req[q].json.user

\* C6 as claimed: under any interleaving, an id that is stored stays stored.
C6_NeverDeleted == [][IdsOf(StoredUsers) \subseteq IdsOf(StoredUsers')]_vars

\* C6 amended: a step that removes a stored id is the users write of a request
\* that overlapped another request; a request that ran alone removes none.
C6_DeletedOnlyByOverlap ==
    [][~(IdsOf(StoredUsers) \subseteq IdsOf(StoredUsers'))
        => \E r \in Requests :
            req[r].pc = "writeUsers" /\ Moved(r) /\ req[r].overlapped]_vars

\* C6 witness: two users are stored and the last answer went to an activity
\* request that ran alone and rewrote the users file.
C6_Witness ==
    /\ Len(StoredUsers) = 2
    /\ latest # 0
    /\ Ok(latest) /\ req[latest].op = "activity"
    /\ "users" \in req[latest].wrote /\ ~req[latest].overlapped

\* What the request in slot r is left with when its load returned an empty
\* array and the handler went on from there.
UsersLoadedEmpty(r) ==
    /\ ~(req'[r].pc = "done" /\ req'[r].status = 500)
    /\ req[r].op = "users" => req'[r].json.users = EmptyArray
    /\ req[r].op = "stats" => req'[r].users = EmptyArray
    /\ req[r].op = "register" =>
            req'[r].pc = "writeUsers" /\ req'[r].users = <<req'[r].newUser>>
    /\ req[r].op = "activity" => req'[r].pc = "readActivity"

ActivityLoadedEmpty(r) ==
    /\ ~(req'[r].pc = "done" /\ req'[r].status = 500)
    /\ req[r].op = "getActivity" => req'[r].json.activity = EmptyArray
    /\ req[r].op = "stats" => req'[r].json.totalMessages = 0
    /\ req[r].op = "activity" =>
            req'[r].pc = "writeActivity" /\ Len(req'[r].activity) = 1

\* C7 as claimed: whenever the file a handler loads is absent, unreadable, not
\* parseable or holds JSON that is no array, the load returns an empty array
\* and the handler goes on as on an empty collection.
C7_LoadFailsOpen ==
    [][\A r \in Requests :
        /\ (req[r].pc = "readUsers" /\ Moved(r) /\ usersFile.kind # "array")
                => UsersLoadedEmpty(r)
        /\ (req[r].pc = "readActivity" /\ Moved(r) /\ activityFile.kind # "array"
                /\ (req[r].op = "stats" => req[r].users.kind = "array"))
                => ActivityLoadedEmpty(r)]_vars

\* C8 as claimed: a request during which a storage read or a storage write
\* failed is answered 500.
C8_EveryFailureIs500 ==
    \A r \in Requests : (Done(r) /\ req[r].io # {}) => req[r].status = 500

\* C8 amended: a request during which a storage write failed is answered 500;
\* a failed read is taken as an empty collection, and GET /api/users and
\* GET /api/activity answer 200 with it.
C8_WriteFailureIs500 ==
    \A r \in Requests :
        Done(r) =>
            /\ "write" \in req[r].io => req[r].status = 500
            /\ ("read" \in req[r].io /\ req[r].op = "users")
                    => req[r].status = 200 /\ req[r].json.users = EmptyArray
            /\ ("read" \in req[r].io /\ req[r].op = "getActivity")
                    => req[r].status = 200 /\ req[r].json.activity = EmptyArray

\* C8 witness: a register request whose users write failed was answered 500,
\* and a GET /api/users whose read failed was answered 200.
C8_Witness ==
    \E q, r \in Requests :
        /\ Done(q) /\ req[q].op = "register" /\ "write" \in req[q].io
        /\ req[q].status = 500
        /\ Done(r) /\ req[r].op = "users" /\ "read" \in req[r].io
        /\ req[r].status = 200

\* The k-th call's event, as the handler stores it.
NthEvent(k) ==
    [userId |-> "u1", action |-> "stop", messagesSent |-> k,
     timestamp |-> toISOString(0)]

Min(a, b) == IF a < b THEN a ELSE b

\* C4: after n recordActivity calls, one after the other, on an empty log, the
\* log holds min(n, 1000) events: the most recent ones, in arrival order.
C4_KeepsMostRecent ==
    Quiet =>
        LET n == CallsAnswered
            kept == Min(n, 1000)
        IN  /\ Len(StoredEvents) = kept
            /\ \A i \in 1..kept : StoredEvents[i] = NthEvent(n - kept + i)

\* C4 witness: 1005 calls were answered; the log starts with the sixth event.
C4_Witness ==
    /\ Quiet /\ CallsAnswered = 1005
    /\ Len(StoredEvents) = 1000
    /\ StoredEvents[1].messagesSent = 6

\* C5: from a log of at most 1000 entries, under any interleaving of
\* recordActivity requests, the log never holds more than 1000 entries and
\* GET /api/activity never returns more.
C5_AtMostRetention ==
    /\ Len(StoredEvents) <= 1000
    /\ \A r \in Requests :
        (Done(r) /\ req[r].op = "getActivity")
            => Len(req[r].json.activity.items) <= 1000

\* C5 witness: the log is full, its oldest entries were evicted for events of
\* overlapping requests, and a GET that overlapped returned 1000 entries.
C5_Witness ==
    /\ Len(StoredEvents) = 1000 /\ NewEvents >= 2
    /\ \E r \in Requests :
        /\ Done(r) /\ req[r].op = "getActivity" /\ req[r].overlapped
        /\ Len(req[r].json.activity.items) = 1000

\* The sum of messagesSent (0 when an event has none) over the events at the
\* indices in I.
RECURSIVE SumAt(_, _)
SumAt(events, I) ==
    IF I = {} THEN 0
    ELSE LET i == CHOOSE j \in I : TRUE
         IN  (IF "messagesSent" \in DOMAIN events[i] THEN events[i].messagesSent ELSE 0)
             + SumAt(events, I \ {i})

StatsAnswered == Done(1) /\ req[1].op = "stats" /\ req[1].status = 200

\* C9: totalMessages is the sum of messagesSent over exactly the stored events
\* whose action is "stop"; events with another action contribute nothing.
C9_TotalMessagesSumsStops ==
    StatsAnswered =>
        req[1].json.totalMessages =
            SumAt(StoredEvents,
                  {i \in 1..Len(StoredEvents) : StoredEvents[i].action = "stop"})

\* C9 witness: the log is [{stop, 5}, {start, 99}] and totalMessages is 5.
C9_Witness ==
    /\ StatsAnswered
    /\ Len(StoredEvents) = 2
    /\ StoredEvents[1].action = "stop" /\ NumOrZero(StoredEvents[1], "messagesSent") = 5
    /\ StoredEvents[2].action = "start" /\ NumOrZero(StoredEvents[2], "messagesSent") = 99
    /\ req[1].json.totalMessages = 5

\* The calendar date of the clock, and the users whose lastActive has date d.
DateAt(t) == DayTok[(t \div 2) + 1]
ActiveOnDate(users, d) ==
    {i \in 1..Len(users) : "lastActive" \in DOMAIN users[i] /\ users[i].lastActive[1] = d}

\* C10: GET /api/stats answers with totalUsers, the number of stored users,
\* and activeToday, the number of stored users whose lastActive, cut down to
\* its date, is the date of the answer; users last active on an earlier day or
\* without lastActive are not counted.
C10_CountsUsersActiveToday ==
    StatsAnswered =>
        /\ req[1].json.totalUsers = Len(StoredUsers)
        /\ req[1].json.activeToday =
               Cardinality(ActiveOnDate(StoredUsers, DateAt(req[1].at)))

\* C10 witness: on the second day, of three users (one never active, one last
\* active on the first day, one on the second) one is reported active today.
C10_Witness ==
    /\ StatsAnswered
    /\ Len(StoredUsers) = 3
    /\ \E i \in 1..3 : "lastActive" \notin DOMAIN StoredUsers[i]
    /\ Cardinality(ActiveOnDate(StoredUsers, DateAt(0))) = 1
    /\ Cardinality(ActiveOnDate(StoredUsers, DateAt(2))) = 1
    /\ req[1].json.totalUsers = 3
    /\ req[1].json.activeToday = 1
    /\ req[1].at = 2

\* The request in slot r is a POST /api/activity that passed validation and
\* has not been answered.
RecordingActivity(r) ==
    /\ req[r].op = "activity" /\ InFlight(r)
    /\ "userId" \in DOMAIN req[r].body /\ "action" \in DOMAIN req[r].body

UnknownUser(r) == \A i \in 1..Len(StoredUsers) : StoredUsers[i].id # req[r].body.userId

\* C11: a recordActivity request for a userId that no stored user has leaves
\* the users file as it is in every step it takes, and is answered with
\* success after its event was appended to the log.
C11_UnknownUserStillRecorded ==
    [][\A r \in Requests :
        (RecordingActivity(r) /\ UnknownUser(r) /\ Moved(r))
            => /\ usersFile' = usersFile
               /\ "users" \notin req'[r].wrote
               /\ Done(r)' =>
                    /\ req'[r].status = 200 /\ req'[r].json = [success |-> TRUE]
                    /\ Len(StoredEvents') = Len(StoredEvents) + 1
                    /\ SubSeq(StoredEvents', 1, Len(StoredEvents)) = StoredEvents
                    /\ LET e == StoredEvents'[Len(StoredEvents')] IN
                        /\ e.userId = req[r].body.userId
                        /\ e.action = req[r].body.action]_vars

\* C11 witness: users are stored, none with the userId of the activity request
\* that was just answered with success; its event ends the log.
C11_Witness ==
    /\ StoredUsers # << >> /\ StoredEvents # << >>
    /\ \E r \in Requests :
        /\ latest = r /\ Ok(r) /\ req[r].op = "activity"
        /\ req[r].body.userId \notin IdsOf(StoredUsers)
        /\ StoredEvents[Len(StoredEvents)].userId = req[r].body.userId
        /\ "users" \notin req[r].wrote

\* The request in slot r is a POST /api/register with all required fields that
\* has not been answered, and no stored user has its id or its email.
RegisteringNew(r) ==
    /\ req[r].op = "register" /\ InFlight(r)
    /\ \A f \in {"id", "username", "email"} : f \in DOMAIN req[r].body
    /\ \A i \in 1..Len(StoredUsers) :
        StoredUsers[i].id # req[r].body.id /\ StoredUsers[i].email # req[r].body.email

\* The user the spec has register store for body b at clock t.
ExpectedUser(b, t) ==
    [id |-> b.id, username |-> b.username, email |-> b.email,
     registeredAt |-> IF "registeredAt" \in DOMAIN b THEN b.registeredAt
                      ELSE <<DayTok[(t \div 2) + 1], "T", TimeTok[(t % 2) + 1]>>,
     version |-> IF "version" \in DOMAIN b THEN b.version ELSE "1.0.0",
     lastActive |-> <<DayTok[(t \div 2) + 1], "T", TimeTok[(t % 2) + 1]>>]

\* The register request of slot q was answered with a new user, and the GET
\* /api/users of slot r was answered right after it.
ListedAfterRegister(q, r) ==
    /\ q # r /\ latest = r
    /\ Ok(q) /\ req[q].op = "register" /\ Has(req[q].json, "success")
    /\ Ok(r) /\ req[r].op = "users"

\* C12: a register request that matches no stored user, run alone, is answered
\* with success and the new user (registeredAt and version defaulted when not
\* supplied, lastActive the current time); that user is appended at the end of
\* the users file and every user stored before stays as it was; the GET
\* /api/users that follows lists exactly one entry with that id.
C12_RegisterAppendsNewUser ==
    /\ [][\A r \in Requests :
            (RegisteringNew(r) /\ Done(r)')
                => /\ req'[r].status = 200
                   /\ req'[r].json = [success |-> TRUE,
                                      user |-> ExpectedUser(req[r].body, now)]
                   /\ StoredUsers' = Append(StoredUsers, ExpectedUser(req[r].body, now))]_vars
    /\ [](\A q, r \in Requests :
            ListedAfterRegister(q, r)
                => Cardinality({i \in 1..Len(req[r].json.users.items) :
                        req[r].json.users.items[i].id = req[q].body.id}) = 1)

\* C12 witness: a second user was registered with registeredAt and version
\* supplied, after a first one, and the GET /api/users that followed lists both.
C12_Witness ==
    \E q, r \in Requests :
        /\ ListedAfterRegister(q, r)
        /\ Has(req[q].body, "registeredAt")
        /\ Len(StoredUsers) = 2
        /\ StoredUsers[2] = req[q].json.user
        /\ StoredUsers[1].registeredAt # StoredUsers[2].registeredAt
        /\ req[r].json.users.items = StoredUsers

GetOps == {"users", "getActivity", "stats"}

\* C13: no step of a GET /api/users, GET /api/activity or GET /api/stats
\* request changes the users file or the activity file, and none of them ever
\* calls writeFile, whatever other requests are in flight.
C13_GetsAreReadOnly ==
    [][\A r \in Requests :
        (req'[r].op \in GetOps /\ req'[r].pc # req[r].pc)
            => /\ usersFile' = usersFile /\ activityFile' = activityFile
               /\ req'[r].wrote = {}]_vars

\* C13 witness: a GET /api/stats and a GET /api/activity were answered, both
\* having overlapped other requests, with users and events stored.
C13_Witness ==
    /\ StoredUsers # << >> /\ StoredEvents # << >>
    /\ Ok(1) /\ req[1].op = "stats" /\ req[1].overlapped /\ req[1].json.totalUsers > 0
    /\ Ok(2) /\ req[2].op = "getActivity" /\ req[2].overlapped
    /\ req[2].json.activity = ArrayValue(StoredEvents)

\* Both slots hold a request of kind op that was answered with success.
BothSucceeded(op) ==
    \A r \in Requests : Ok(r) /\ req[r].op = op /\ Has(req[r].json, "success")

\* The stored events that the activity request of slot r can have appended.
EventsOf(r) ==
    {i \in 1..Len(StoredEvents) :
        /\ StoredEvents[i].userId = req[r].body.userId
        /\ StoredEvents[i].action = req[r].body.action}

\* One of two successful updates is missing from its store: a user that was
\* registered, or one of the two events that were recorded.
UpdateLost ==
    \/ /\ BothSucceeded("register")
       /\ \E r \in Requests : req[r].body.id \notin IdsOf(StoredUsers)
    \/ /\ BothSucceeded("activity")
       /\ \E q, r \in Requests :
            /\ q # r
            /\ \/ EventsOf(r) = {}
               \/ req[q].body = req[r].body /\ Cardinality(EventsOf(r)) < 2

\* The user or the event that the request of slot r was answered success for
\* is in its store.
UpdateStored(r) ==
    /\ req[r].op = "register" => req[r].body.id \in IdsOf(StoredUsers)
    /\ req[r].op = "activity" => EventsOf(r) # {}

\* C14: two requests that write the same collection can both be answered with
\* success while the store lacks the update of one of them (the witness is such
\* a state); it happens only to requests that overlapped another request.
C14_LostUpdateOnlyByOverlap ==
    \A r \in Requests :
        (Ok(r) /\ Has(req[r].json, "success") /\ ~req[r].overlapped) => UpdateStored(r)

\* C14 witness: two overlapping recordActivity requests on an empty log were
\* both answered with success and the log holds one event.
C14_Witness ==
    /\ BothSucceeded("activity")
    /\ \A r \in Requests : req[r].overlapped
    /\ req[1].body # req[2].body
    /\ Len(StoredEvents) = 1
    /\ UpdateLost
    /\ \E r \in Requests : ~UpdateStored(r)

KnownUser(r) == \E i \in 1..Len(StoredUsers) : StoredUsers[i].id = req[r].body.userId

\* The lastActive the spec has recordActivity store for body b at clock t.
ExpectedLastActive(b, t) ==
    IF "timestamp" \in DOMAIN b THEN b.timestamp
    ELSE <<DayTok[(t \div 2) + 1], "T", TimeTok[(t % 2) + 1]>>

\* users, with lastActive of the users that have the id set to ts.
WithLastActive(users, id, ts) ==
    [i \in 1..Len(users) |->
        IF users[i].id = id THEN [users[i] EXCEPT !.lastActive = ts] ELSE users[i]]

\* C15: a recordActivity request for the id of a stored user, run alone,
\* changes the users file in one way only: that user's lastActive becomes the
\* supplied timestamp, or the current time when none is supplied, whatever it
\* was before; and the request is not answered before that is stored.
C15_TouchSetsLastActive ==
    [][\A r \in Requests :
        (RecordingActivity(r) /\ KnownUser(r) /\ Moved(r))
            => LET b == req[r].body
                   touched == WithLastActive(StoredUsers, b.userId,
                                             ExpectedLastActive(b, now))
               IN  /\ StoredUsers' \in {StoredUsers, touched}
                   /\ Done(r)' => req'[r].status = 200 /\ StoredUsers' = touched]_vars

\* C15 witness: two users are stored; the one registered at the current time
\* was just given a supplied, older lastActive; the other keeps its own.
C15_Witness ==
    /\ Len(StoredUsers) = 2
    /\ \E r \in Requests : \E i, j \in 1..2 :
        /\ latest = r /\ Ok(r) /\ req[r].op = "activity"
        /\ Has(req[r].body, "timestamp") /\ req[r].body.timestamp = <<"2025-12-30">>
        /\ StoredUsers[i].id = req[r].body.userId
        /\ StoredUsers[i].registeredAt = toISOString(0)
        /\ StoredUsers[i].lastActive = <<"2025-12-30">>
        /\ i # j /\ StoredUsers[j].lastActive = toISOString(0)

\* C16: when recordActivity has written the users file for a known user and
\* its write of the activity file then fails, the step that answers it answers
\* 500, the users file keeps the user's new lastActive, and the activity file
\* holds no new event.
C16_NoRollbackAfterUsersWrite ==
    [][\A r \in Requests :
        (/\ RecordingActivity(r) /\ req[r].pc = "writeActivity"
         /\ "users" \in req[r].wrote
         /\ Done(r)' /\ "write" \in req'[r].io)
            => /\ req'[r].status = 500
               /\ usersFile' = usersFile
               /\ \E i \in 1..Len(StoredUsers') :
                    /\ StoredUsers'[i].id = req[r].body.userId
                    /\ StoredUsers'[i].lastActive = ExpectedLastActive(req[r].body, now)
               /\ StoredEvents' \in {StoredEvents, << >>}]_vars

\* C16 witness: the last request, a recordActivity for a stored user, wrote the
\* users file, failed to write the activity file and was answered 500; the
\* user has the request's timestamp and the log is the empty array it was.
C16_Witness ==
    \E r \in Requests :
        /\ latest = r /\ Done(r) /\ req[r].op = "activity" /\ req[r].status = 500
        /\ req[r].wrote = {"users", "activity"} /\ req[r].io = {"write"}
        /\ StoredUsers # << >> /\ Has(req[r].body, "timestamp")
        /\ StoredUsers[1].id = req[r].body.userId
        /\ StoredUsers[1].lastActive = req[r].body.timestamp
        /\ StoredUsers[1].lastActive # OldUser.lastActive
        /\ activityFile = JSONStringify(<< >>)

\* C17 as claimed: under any interleaving, a step never changes the
\* registeredAt that is stored for an id.
C17_RegisteredAtNeverChanges ==
    [][\A i \in 1..Len(StoredUsers), j \in 1..Len(StoredUsers') :
        StoredUsers[i].id = StoredUsers'[j].id
            => StoredUsers[i].registeredAt = StoredUsers'[j].registeredAt]_vars

\* This step is the users write of a request that overlapped another one.
OverlappedUsersWrite ==
    \E r \in Requests : req[r].pc = "writeUsers" /\ Moved(r) /\ req[r].overlapped

\* C17 amended: every step other than the users write of a request that
\* overlapped another keeps every stored user stored, in its place and with its
\* registeredAt; so registeredAt is set once where requests do not overlap.
C17_SetOnceUnlessOverlap ==
    [][~OverlappedUsersWrite
        => \A i \in 1..Len(StoredUsers) :
            /\ i <= Len(StoredUsers')
            /\ StoredUsers'[i].id = StoredUsers[i].id
            /\ StoredUsers'[i].registeredAt = StoredUsers[i].registeredAt]_vars

\* C17 witness: the user keeps the registeredAt it was registered with after a
\* recordActivity for it and after a register request for its id, without a
\* registeredAt, that ran alone and was answered "already registered".
C17_Witness ==
    /\ Len(StoredUsers) = 1
    /\ StoredUsers[1].registeredAt = SuppliedRegisteredAt
    /\ StoredUsers[1].lastActive # StoredUsers[1].registeredAt
    /\ \E q, r \in Requests :
        /\ Ok(q) /\ req[q].op = "activity" /\ "users" \in req[q].wrote
        /\ latest = r /\ Ok(r) /\ req[r].op = "register" /\ ~req[r].overlapped
        /\ ~Has(req[r].body, "registeredAt") /\ Has(req[r].json, "message")

\* What initializeStorage is to leave of a file: the empty collection where no
\* file was, the file itself otherwise.
Initialized(file) ==
    IF file.kind = "missing" THEN [kind |-> "array", items |-> << >>] ELSE file

\* C18: no request is accepted before initializeStorage is over; when it is
\* over both files exist, a file that was missing holds the empty collection
\* and a file that existed is as it was, whatever it holds.
C18_InitCreatesOnlyMissing ==
    /\ [](~started => \A r \in Requests : req[r] = Idle)
    /\ [][(~started /\ started')
            => /\ usersFile' = Initialized(usersFile)
               /\ activityFile' = Initialized(activityFile)
               /\ usersFile'.kind # "missing" /\ activityFile'.kind # "missing"]_vars

\* C18 witness: initializeStorage is over and no request has arrived; the
\* users file holds the empty collection and the activity file, which does not
\* parse, is still there.
C18_Witness ==
    /\ started /\ \A r \in Requests : req[r] = Idle
    /\ usersFile = [kind |-> "array", items |-> << >>]
    /\ activityFile = CorruptFile

Unreadable(file) == file.kind \in {"missing", "unparseable"}

\* The load that this step of the request in slot r completes has failed: the
\* file is missing or does not parse, or the read itself was rejected.
LoadFailedNow(r, file) ==
    Unreadable(file) \/ ("read" \notin req[r].io /\ "read" \in req'[r].io)

\* C19: a valid register request whose load of the users file fails goes on
\* with a collection holding only the new user, and a valid recordActivity
\* request whose load of the activity file fails goes on with a collection
\* holding only the new event; the write that follows, when it succeeds,
\* replaces the file by that collection and the request is answered success.
C19_FailedLoadOverwrites ==
    [][\A r \in Requests :
        /\ (req[r].op = "register" /\ req[r].pc = "readUsers" /\ Moved(r)
                /\ LoadFailedNow(r, usersFile))
            => /\ req'[r].pc = "writeUsers"
               /\ Len(req'[r].users) = 1
               /\ req'[r].users[1].id = req[r].body.id
        /\ (req[r].op = "activity" /\ req[r].pc = "readActivity" /\ Moved(r)
                /\ LoadFailedNow(r, activityFile))
            => /\ req'[r].pc = "writeActivity"
               /\ Len(req'[r].activity) = 1
               /\ req'[r].activity[1].userId = req[r].body.userId
        /\ (req[r].op = "register" /\ req[r].pc = "writeUsers" /\ Moved(r)
                /\ "write" \notin req'[r].io)
            => /\ usersFile' = [kind |-> "array", items |-> req[r].users]
               /\ req'[r].status = 200 /\ Has(req'[r].json, "success")
        /\ (req[r].op = "activity" /\ req[r].pc = "writeActivity" /\ Moved(r)
                /\ "write" \notin req'[r].io)
            => /\ activityFile' = [kind |-> "array", items |-> req[r].activity]
               /\ req'[r].status = 200 /\ Has(req'[r].json, "success")]_vars

\* C19 witness: GET /api/users listed the user on disk; then the load of a
\* register request for another user was rejected, the request was answered
\* success, and the users file holds the new user alone.
C19_Witness ==
    \E q, r \in Requests :
        /\ Ok(q) /\ req[q].op = "users" /\ req[q].json.users = ArrayValue(<<OldUser>>)
        /\ latest = r /\ Ok(r) /\ req[r].op = "register" /\ Has(req[r].json, "success")
        /\ req[r].io = {"read"}
        /\ usersFile = JSONStringify(<<req[r].json.user>>)
        /\ req[r].json.user.id # OldUser.id

====
